---- MODULE Spec2Model ----
(***************************************************************************)
(* Model of paint-optimizer (src/app/paint-optimizer.js).                  *)
(*                                                                         *)
(* A JavaScript string is a tuple of one-character strings ("101" is       *)
(* <<"1","0","1">>), an Array is a tuple, and a Map is the tuple of its    *)
(* [key, value] entries in insertion order, no key twice.                  *)
(***************************************************************************)
EXTENDS Integers, Sequences, FiniteSets, TLC

\* ------------------------------------------------------------- bounds
\* Largest number of colors a search or a call is made with.
MaxColors == 2
\* Largest size of the allRequirements built: its clients plus all their pairs.
MaxSize == 5
\* Largest number of pairs of a single requirements Map / listed on one line.
MaxPairs == 2
\* Largest length of an array handed to Array.prototype.sort on its own.
MaxArrayLen == 3

\* ------------------------------------------------------ JavaScript values
\* The value undefined, as a string (a tuple) so that it compares with strings.
Undefined == <<"undefined">>

\* The number NaN: an integer no position of the model can take.
NaN == -1000

\* string[index]: the character, or undefined outside the string's indices
\* (NaN and negative numbers included).
CharAt(string, index) ==
  IF index \in 0..(Len(string) - 1) THEN string[index + 1] ELSE Undefined[1]

\* String.prototype.repeat
Repeat(character, count) == [i \in 1..count |-> character]

\* Map.prototype.set: the value of an existing key is replaced in place, a new
\* key is appended.
MapSet(map, key, value) ==
  IF \E i \in 1..Len(map) : map[i][1] = key
  THEN LET at == CHOOSE i \in 1..Len(map) : map[i][1] = key
       IN  SubSeq(map, 1, at - 1) \o << <<key, value>> >> \o SubSeq(map, at + 1, Len(map))
  ELSE Append(map, <<key, value>>)

\* ------------------------------------------------------------ the program
\* Math.pow(2, colors)
Pow2(colors) == 2 ^ colors

\* Faulty variants of createPossibleSolutions: the last solution left out; the
\* array filled from its end.
createPossibleSolutionsShort(colors) == [i \in 1..(Pow2(colors) - 1) |-> i - 1]
createPossibleSolutionsDescending(colors) == [i \in 1..Pow2(colors) |-> Pow2(colors) - i]
\* The array of length 2^colors whose value at each index is the index.
createPossibleSolutions(colors) == [i \in 1..Pow2(colors) |-> i - 1]

\* Number.prototype.toString.call(n, 2), most significant digit first.
BinaryDigit(n) == IF n = 0 THEN "0" ELSE "1"

RECURSIVE convertDecimalSolutionToBinary(_)
convertDecimalSolutionToBinary(decimalEncodedSolution) ==
  IF decimalEncodedSolution < 2
  THEN <<BinaryDigit(decimalEncodedSolution)>>
  ELSE convertDecimalSolutionToBinary(decimalEncodedSolution \div 2)
         \o <<BinaryDigit(decimalEncodedSolution % 2)>>

characterCount(string, characterToCount) ==
  Cardinality({i \in 1..Len(string) : string[i] = characterToCount})

\* Faulty variant of sortPossibleSolutions: the operands of the subtraction swapped.
sortPossibleSolutionsDescending(characterToSortBy, first, second) ==
  characterCount(second, characterToSortBy) - characterCount(first, characterToSortBy)
sortPossibleSolutions(characterToSortBy, first, second) ==
  characterCount(first, characterToSortBy) - characterCount(second, characterToSortBy)

\* Faulty variants of padPossibleSolution: longer strings cut to the length;
\* the padding put behind the string.
padPossibleSolutionTruncating(requiredLength, paddingCharacter, possibleSolution) ==
  IF Len(possibleSolution) < requiredLength
  THEN Repeat(paddingCharacter, requiredLength - Len(possibleSolution)) \o possibleSolution
  ELSE SubSeq(possibleSolution, Len(possibleSolution) - requiredLength + 1, Len(possibleSolution))
padPossibleSolutionRight(requiredLength, paddingCharacter, possibleSolution) ==
  IF Len(possibleSolution) < requiredLength
  THEN possibleSolution \o Repeat(paddingCharacter, requiredLength - Len(possibleSolution))
  ELSE possibleSolution
padPossibleSolution(requiredLength, paddingCharacter, possibleSolution) ==
  IF Len(possibleSolution) < requiredLength
  THEN Repeat(paddingCharacter, requiredLength - Len(possibleSolution)) \o possibleSolution
  ELSE possibleSolution

\* Faulty variant of areRequirementsSatisfied: returns after the first pair.
areRequirementsSatisfiedFirstOnly(possibleSolution, requirements) ==
  /\ requirements # <<>>
  /\ CharAt(possibleSolution, requirements[1][1]) = requirements[1][2]
RECURSIVE areRequirementsSatisfied(_, _)
areRequirementsSatisfied(possibleSolution, requirements) ==
  IF requirements = <<>> THEN FALSE
  ELSE IF CharAt(possibleSolution, Head(requirements)[1]) = Head(requirements)[2]
       THEN TRUE
       ELSE areRequirementsSatisfied(possibleSolution, Tail(requirements))

\* allRequirements is the Map of [client key, requirements Map] entries.
\* Faulty variants of doesSolutionSatisfyAllClients: returns after the first
\* client; skips the client whose key is 0.
doesSolutionSatisfyAllClientsFirstOnly(allRequirements, possibleSolution) ==
  allRequirements = <<>> \/ areRequirementsSatisfied(possibleSolution, allRequirements[1][2])
doesSolutionSatisfyAllClientsSkipKeyZero(allRequirements, possibleSolution) ==
  \A c \in 1..Len(allRequirements) :
    allRequirements[c][1] = 0 \/ areRequirementsSatisfied(possibleSolution, allRequirements[c][2])
RECURSIVE doesSolutionSatisfyAllClients(_, _)
doesSolutionSatisfyAllClients(allRequirements, possibleSolution) ==
  IF allRequirements = <<>> THEN TRUE
  ELSE IF areRequirementsSatisfied(possibleSolution, Head(allRequirements)[2]) = FALSE
       THEN FALSE
       ELSE doesSolutionSatisfyAllClients(Tail(allRequirements), possibleSolution)

\* array.sort(sortPossibleSolutions(characterToSortBy)). Array.prototype.sort
\* with a comparator that is a consistent ordering is a stable sort (ECMAScript
\* 2019 on): an element lands after every element that compares less than it
\* and after every earlier element that compares equal.
SortedIndex(array, i, characterToSortBy) ==
  1 + Cardinality({j \in 1..Len(array) :
        \/ sortPossibleSolutions(characterToSortBy, array[j], array[i]) < 0
        \/ /\ sortPossibleSolutions(characterToSortBy, array[j], array[i]) = 0
           /\ j < i})

ArraySort(array, characterToSortBy) ==
  [k \in 1..Len(array) |->
     array[CHOOSE i \in 1..Len(array) : SortedIndex(array, i, characterToSortBy) = k]]

\* The array findCheapestSolution hands to find: enumerate, encode, sort, pad.
paddedPossibleSolutions(colors) ==
  LET created == createPossibleSolutions(colors)
      encoded == [i \in 1..Len(created) |-> convertDecimalSolutionToBinary(created[i])]
      sorted  == ArraySort(encoded, "1")
  IN  [i \in 1..Len(sorted) |-> padPossibleSolution(colors, "0", sorted[i])]

\* array.find(doesSolutionSatisfyAllClients(allRequirements)): the first element
\* the predicate holds for, or undefined.
findSatisfying(array, allRequirements) ==
  LET hits == {i \in 1..Len(array) :
                 doesSolutionSatisfyAllClients(allRequirements, array[i])}
  IN  IF hits = {} THEN Undefined
      ELSE array[CHOOSE i \in hits : \A j \in hits : i <= j]

findCheapestSolution(colors, allRequirements) ==
  findSatisfying(paddedPossibleSolutions(colors), allRequirements)

\* ---------------------------------------------------------------- parsing
DecimalDigits == <<"0", "1", "2", "3", "4", "5", "6", "7", "8", "9">>
IsDecimalDigit(character) == \E d \in 1..10 : DecimalDigits[d] = character
DigitValue(character) == (CHOOSE d \in 1..10 : DecimalDigits[d] = character) - 1

\* /\s/ as far as the lines of the model go.
IsWhitespace(character) == character \in {" ", "\t", "\r"}

\* String.prototype.split(/\s/): a token ends at each whitespace character, so
\* the empty string splits into the one token "".
RECURSIVE Split(_)
Split(line) ==
  LET spaces == {i \in 1..Len(line) : IsWhitespace(line[i])}
  IN  IF spaces = {} THEN <<line>>
      ELSE LET first == CHOOSE i \in spaces : \A j \in spaces : i <= j
           IN  <<SubSeq(line, 1, first - 1)>> \o Split(SubSeq(line, first + 1, Len(line)))

\* parseInt(string, 10) of a string without sign or leading blanks: the value of
\* its leading digits, NaN when it has none. undefined has none either.
RECURSIVE ParseDigits(_, _)
ParseDigits(string, value) ==
  IF string = <<>> \/ ~IsDecimalDigit(Head(string)) THEN value
  ELSE ParseDigits(Tail(string), 10 * value + DigitValue(Head(string)))

parseInt(string) ==
  IF string = <<>> \/ ~IsDecimalDigit(Head(string)) THEN NaN ELSE ParseDigits(string, 0)

\* number - 1
MinusOne(number) == IF number = NaN THEN NaN ELSE number - 1

\* array[index] of an array of strings: undefined past the end.
TokenAt(array, index) == IF index \in 0..(Len(array) - 1) THEN array[index + 1] ELSE Undefined

mapColorType(colorType) == IF colorType = <<"G">> THEN "0" ELSE "1"

RECURSIVE parseRequirementTokens(_, _, _)
parseRequirementTokens(clientRequirementTokens, requirementTokens, clientRequirements) ==
  IF requirementTokens < Len(clientRequirementTokens)
  THEN LET colorID         == TokenAt(clientRequirementTokens, requirementTokens)
           colorType       == TokenAt(clientRequirementTokens, requirementTokens + 1)
           mappedColourID  == MinusOne(parseInt(colorID))
           mappedColorType == mapColorType(colorType)
       IN  parseRequirementTokens(clientRequirementTokens, requirementTokens + 2,
             MapSet(clientRequirements, mappedColourID, mappedColorType))
  ELSE clientRequirements

parseFileInputLine(line) == parseRequirementTokens(Split(line), 0, <<>>)

\* ----------------------------------------------------------------- inputs
BinaryDigits == {"0", "1"}

\* The strings of at most maxLength binary digits.
DigitStrings(maxLength) == UNION {[1..k -> BinaryDigits] : k \in 0..maxLength}

\* The requirements Maps of at most MaxPairs entries over the given positions.
RequirementMaps(positions) ==
  {map \in UNION {[1..k -> positions \X BinaryDigits] : k \in 0..MaxPairs} :
     \A i, j \in 1..Len(map) : map[i][1] = map[j][1] => i = j}

\* The decimal numeral of a natural number.
RECURSIVE NumberToString(_)
NumberToString(number) ==
  IF number < 10 THEN <<DecimalDigits[number + 1]>>
  ELSE NumberToString(number \div 10) \o <<DecimalDigits[(number % 10) + 1]>>

\* The requirement line that lists the given <position, letter> pairs, one blank
\* between tokens ("2 G 3 M 4 G").
RECURSIVE FileLine(_)
FileLine(listed) ==
  IF listed = <<>> THEN <<>>
  ELSE NumberToString(listed[1][1]) \o <<" ", listed[1][2]>>
         \o (IF Len(listed) = 1 THEN <<>> ELSE <<" ">> \o FileLine(Tail(listed)))

ListedPairs == UNION {[1..k -> (1..MaxColors) \X {"G", "M"}] : k \in 0..MaxPairs}

\* ------------------------------------------------------------------ state
VARIABLES
  colors,            \* findCheapestSolution's first argument
  allRequirements,   \* its second: the Map of clients
  pc,                \* "input" while the arguments are built, then "done"
  possibleSolutions, \* the array findCheapestSolution searched
  cheapestSolution,  \* what findCheapestSolution returned
  call               \* the call of a function made on its own: [fn, in, out]

vars == <<colors, allRequirements, pc, possibleSolutions, cheapestSolution, call>>
searchVars == <<colors, allRequirements, pc, possibleSolutions, cheapestSolution>>

NoCall == [fn |-> "none", in |-> <<>>, out |-> <<>>]

\* Clients plus pairs of an allRequirements Map.
RECURSIVE Size(_)
Size(requirements) ==
  IF requirements = <<>> THEN 0
  ELSE 1 + Len(Head(requirements)[2]) + Size(Tail(requirements))

Positions == 0..MaxColors

Init ==
  /\ colors \in 0..MaxColors
  /\ allRequirements = <<>>
  /\ pc = "input"
  /\ possibleSolutions = <<>>
  /\ cheapestSolution = Undefined
  /\ call = NoCall

\* allRequirements.set(allRequirements.size, clientRequirements) of a new client.
SetClient ==
  /\ pc = "input"
  /\ Size(allRequirements) < MaxSize
  /\ allRequirements' = MapSet(allRequirements, Len(allRequirements), <<>>)
  /\ UNCHANGED <<colors, pc, possibleSolutions, cheapestSolution, call>>

\* clientRequirements.set(position, type) on the client being filled, the last.
SetRequirement ==
  /\ pc = "input"
  /\ allRequirements # <<>>
  /\ \E position \in Positions, type \in BinaryDigits :
       LET client == allRequirements[Len(allRequirements)]
           next   == [allRequirements EXCEPT
                        ![Len(allRequirements)] = <<client[1], MapSet(client[2], position, type)>>]
       IN  /\ Size(next) <= MaxSize
           /\ allRequirements' = next
  /\ UNCHANGED <<colors, pc, possibleSolutions, cheapestSolution, call>>

FindCheapestSolution ==
  /\ pc = "input"
  /\ pc' = "done"
  /\ possibleSolutions' = paddedPossibleSolutions(colors)
  /\ cheapestSolution' = findCheapestSolution(colors, allRequirements)
  /\ UNCHANGED <<colors, allRequirements, call>>

Next == SetClient \/ SetRequirement \/ FindCheapestSolution

Spec == Init /\ [][Next]_vars

\* ------------------------------------------- the functions, one call each
InitUnit ==
  /\ colors = 0
  /\ allRequirements = <<>>
  /\ pc = "input"
  /\ possibleSolutions = <<>>
  /\ cheapestSolution = Undefined
  /\ call = NoCall

CallCreatePossibleSolutions ==
  /\ call = NoCall
  /\ \E n \in 0..MaxColors :
       call' = [fn |-> "createPossibleSolutions", in |-> [colors |-> n],
                out |-> createPossibleSolutions(n)]
  /\ UNCHANGED searchVars

\* The binary encodings of the numbers below 2^MaxColors.
Encodings == {convertDecimalSolutionToBinary(d) : d \in 0..(Pow2(MaxColors) - 1)}

\* array.sort(sortPossibleSolutions("1"))
CallSort ==
  /\ call = NoCall
  /\ \E array \in UNION {[1..k -> Encodings] : k \in 0..MaxArrayLen} :
       call' = [fn |-> "sort", in |-> [array |-> array],
                out |-> ArraySort(array, "1")]
  /\ UNCHANGED searchVars

\* padPossibleSolution(requiredLength, "0")(possibleSolution)
CallPadPossibleSolution ==
  /\ call = NoCall
  /\ \E requiredLength \in (-1)..(MaxColors + 1), possibleSolution \in DigitStrings(MaxColors + 1) :
       call' = [fn |-> "padPossibleSolution",
                in |-> [requiredLength |-> requiredLength, possibleSolution |-> possibleSolution],
                out |-> padPossibleSolution(requiredLength, "0", possibleSolution)]
  /\ UNCHANGED searchVars

CallAreRequirementsSatisfied ==
  /\ call = NoCall
  /\ \E possibleSolution \in DigitStrings(MaxColors),
        requirements \in RequirementMaps({NaN} \cup (-1..MaxColors)) :
       call' = [fn |-> "areRequirementsSatisfied",
                in |-> [possibleSolution |-> possibleSolution, requirements |-> requirements],
                out |-> areRequirementsSatisfied(possibleSolution, requirements)]
  /\ UNCHANGED searchVars

\* parseFileInputLine of the line that lists the pairs drawn.
CallParseFileInputLine ==
  /\ call = NoCall
  /\ \E listed \in ListedPairs :
       call' = [fn |-> "parseFileInputLine",
                in |-> [listed |-> listed, line |-> FileLine(listed)],
                out |-> parseFileInputLine(FileLine(listed))]
  /\ UNCHANGED searchVars

NextUnit ==
  \/ CallCreatePossibleSolutions
  \/ CallSort
  \/ CallPadPossibleSolution
  \/ CallAreRequirementsSatisfied
  \/ CallParseFileInputLine

SpecUnit == InitUnit /\ [][NextUnit]_vars

\* ============================================================== claims
\* What the claims speak of, stated on its own and not through the program.

\* The Assignments of n digits.
Assignments(n) == [1..n -> BinaryDigits]

\* The pair <<position, requiredValue>> matches the assignment.
Matches(assignment, pair) ==
  /\ pair[1] \in 0..(Len(assignment) - 1)
  /\ assignment[pair[1] + 1] = pair[2]

ClientSatisfied(assignment, requirements) ==
  \E i \in 1..Len(requirements) : Matches(assignment, requirements[i])

AllSatisfied(assignment, requirementSet) ==
  \A c \in 1..Len(requirementSet) : ClientSatisfied(assignment, requirementSet[c][2])

\* Cost: the count of '1' digits.
Cost(assignment) == Cardinality({i \in 1..Len(assignment) : assignment[i] = "1"})

\* The digits read as a base-2 integer.
RECURSIVE Base2(_)
Base2(assignment) ==
  IF assignment = <<>> THEN 0
  ELSE 2 * Base2(SubSeq(assignment, 1, Len(assignment) - 1))
         + (IF assignment[Len(assignment)] = "1" THEN 1 ELSE 0)

\* a comes before b, or is b, in the lexicographic order of equally long strings.
LexLeq(a, b) ==
  \/ a = b
  \/ \E i \in 1..Len(a) :
       /\ \A j \in 1..(i - 1) : a[j] = b[j]
       /\ a[i] = "0" /\ b[i] = "1"

Found == pc = "done" /\ cheapestSolution # Undefined

\* C1: for n >= 1, a returned Assignment has exactly n digits, satisfies every
\* client, and no n-digit Assignment satisfying every client has fewer '1's.
C1_CheapestIsMinimal ==
  (Found /\ colors >= 1) =>
    /\ Len(cheapestSolution) = colors
    /\ cheapestSolution \in Assignments(colors)
    /\ AllSatisfied(cheapestSolution, allRequirements)
    /\ \A a \in Assignments(colors) :
         AllSatisfied(a, allRequirements) => Cost(cheapestSolution) <= Cost(a)

\* C1's case: the search returned an Assignment that had to pay for a '1' while
\* cheaper Assignments failed some client.
C1_Witness ==
  /\ Found /\ colors = 2
  /\ cheapestSolution = <<"1", "1">>
  /\ Len(allRequirements) = 2

\* Two clients that each demand only one value of one same position, and
\* opposite values.
OppositeClients ==
  \E c, d \in 1..Len(allRequirements) : \E position \in Positions :
    /\ allRequirements[c][2] = << <<position, "0">> >>
    /\ allRequirements[d][2] = << <<position, "1">> >>

EmptyClient == \E c \in 1..Len(allRequirements) : allRequirements[c][2] = <<>>

\* C2: for a ColorCount n (n >= 1), undefined is returned exactly when no
\* n-digit Assignment satisfies every client; and it is returned whenever two
\* clients demand only opposite values of one position and whenever some client
\* has no pair.
C2_AbsenceIffUnsatisfiable ==
  pc = "done" =>
    /\ colors >= 1 =>
         ((cheapestSolution = Undefined)
            <=> ~ \E a \in Assignments(colors) : AllSatisfied(a, allRequirements))
    /\ OppositeClients => cheapestSolution = Undefined
    /\ EmptyClient => cheapestSolution = Undefined

\* C2's case: absence returned for two opposite clients on a position in range,
\* neither of them empty.
C2_Witness ==
  /\ pc = "done" /\ colors >= 1
  /\ cheapestSolution = Undefined
  /\ OppositeClients /\ ~EmptyClient
  /\ allRequirements[1][2] = << <<0, "0">> >>

\* The orders the pairs of a Map can be iterated in.
Reordered(map) == {[i \in 1..Len(map) |-> map[p[i]]] : p \in Permutations(1..Len(map))}

\* The requirement sets that differ only in the order of pairs inside clients.
RECURSIVE PairReorderings(_)
PairReorderings(requirementSet) ==
  IF requirementSet = <<>> THEN {<<>>}
  ELSE {<< <<Head(requirementSet)[1], map>> >> \o rest :
          map \in Reordered(Head(requirementSet)[2]),
          rest \in PairReorderings(Tail(requirementSet))}

\* Fresh keys for the clients: the ones given, the place in the iteration, the
\* place counted from one, the place counted down.
Rekeyings(requirementSet) ==
  LET n == Len(requirementSet)
  IN  { requirementSet,
        [i \in 1..n |-> <<i - 1, requirementSet[i][2]>>],
        [i \in 1..n |-> <<i, requirementSet[i][2]>>],
        [i \in 1..n |-> <<n - i, requirementSet[i][2]>>] }

\* Every re-keying, client order and pair order of the requirement set.
Variants(requirementSet) ==
  UNION { Rekeyings([i \in 1..Len(r) |-> r[p[i]]]) :
            r \in PairReorderings(requirementSet),
            p \in Permutations(1..Len(requirementSet)) }

\* C4: the result depends only on the set of ClientRequirement values: under
\* any re-keying of the clients, any order of the clients and any order of the
\* pairs inside each client the search (of the same array of candidates, which
\* the requirement set has no part in) returns the same.
C4_OrderAndKeysIrrelevant ==
  pc = "done" =>
    /\ possibleSolutions = paddedPossibleSolutions(colors)
    /\ \A variant \in Variants(allRequirements) :
         findSatisfying(possibleSolutions, variant) = cheapestSolution

\* C4's case: two different clients, the first with two pairs of which only the
\* second one can match the result, and a result found.
C4_Witness ==
  /\ Found /\ colors = 2
  /\ Len(allRequirements) = 2
  /\ Len(allRequirements[1][2]) = 2
  /\ allRequirements[1][2] # allRequirements[2][2]
  /\ ~Matches(cheapestSolution, allRequirements[1][2][1])
  /\ Matches(cheapestSolution, allRequirements[1][2][2])

\* C9: for n >= 1 the array searched holds every string of exactly n binary
\* digits exactly once (2^n of them, none longer or shorter), the count of '1'
\* never decreasing from one to the next.
C9_CandidatesCompleteAndRanked ==
  (pc = "done" /\ colors >= 1) =>
    /\ Len(possibleSolutions) = 2 ^ colors
    /\ \A i \in 1..Len(possibleSolutions) : Len(possibleSolutions[i]) = colors
    /\ {possibleSolutions[i] : i \in 1..Len(possibleSolutions)} = Assignments(colors)
    /\ \A i, j \in 1..Len(possibleSolutions) :
         possibleSolutions[i] = possibleSolutions[j] => i = j
    /\ \A i \in 1..(Len(possibleSolutions) - 1) :
         Cost(possibleSolutions[i]) <= Cost(possibleSolutions[i + 1])

\* C9's case: a search over two colors, whose encodings "0" and "1" had to be
\* padded and "10" moved before "11".
C9_Witness ==
  /\ pc = "done" /\ colors = 2
  /\ possibleSolutions = << <<"0", "0">>, <<"0", "1">>, <<"1", "0">>, <<"1", "1">> >>

\* The Assignments that satisfy every client at the cost of the one returned.
Ties ==
  {a \in Assignments(colors) :
     AllSatisfied(a, allRequirements) /\ Cost(a) = Cost(cheapestSolution)}

\* C10: among the n-digit Assignments of the minimal cost that satisfy every
\* client, the one returned has the smallest base-2 value, which is the
\* lexicographically smallest; with no client at all it is the all-'0' one.
C10_TieBreakSmallestValue ==
  (Found /\ colors >= 1) =>
    /\ \A a \in Ties : Base2(cheapestSolution) <= Base2(a)
    /\ \A a \in Ties : LexLeq(cheapestSolution, a)
    /\ allRequirements = <<>> => cheapestSolution = [i \in 1..colors |-> "0"]

\* C10's case: two Assignments of the minimal cost satisfy every client and the
\* smaller, "01", is returned.
C10_Witness ==
  /\ Found /\ colors = 2
  /\ allRequirements # <<>>
  /\ Ties = {<<"0", "1">>, <<"1", "0">>}
  /\ cheapestSolution = <<"0", "1">>

\* C3: areRequirementsSatisfied is true exactly when some pair, at whatever place
\* in the collection, has the assignment's digit at its position equal to its
\* value; so it is false with no pair and for pairs outside the assignment.
C3_SatisfiedIffSomePairMatches ==
  call.fn = "areRequirementsSatisfied" =>
    /\ call.out = (\E i \in 1..Len(call.in.requirements) :
                Matches(call.in.possibleSolution, call.in.requirements[i]))
    /\ call.in.requirements = <<>> => call.out = FALSE
    /\ (\A i \in 1..Len(call.in.requirements) :
          call.in.requirements[i][1] \notin 0..(Len(call.in.possibleSolution) - 1)) => call.out = FALSE

\* C3's case: the first pair lies outside the assignment, the last one matches.
C3_Witness ==
  /\ call.fn = "areRequirementsSatisfied"
  /\ call.in.possibleSolution = <<"0", "1">>
  /\ call.in.requirements = << <<2, "1">>, <<1, "1">> >>
  /\ call.out = TRUE

\* C5: sorting binary encodings with sortPossibleSolutions("1") gives a
\* permutation of the input with the count of '1' never decreasing, encodings
\* of one same count in their input order.
C5_SortRanksStably ==
  call.fn = "sort" =>
    \E p \in Permutations(1..Len(call.in.array)) :
      /\ Len(call.out) = Len(call.in.array)
      /\ \A k \in 1..Len(call.out) : call.out[k] = call.in.array[p[k]]
      /\ \A k, l \in 1..Len(call.out) : k < l => Cost(call.out[k]) <= Cost(call.out[l])
      /\ \A k, l \in 1..Len(call.out) : (k < l /\ Cost(call.out[k]) = Cost(call.out[l])) => p[k] < p[l]

\* C5's case: "11" had to move behind two encodings of one '1', which kept
\* their order.
C5_Witness ==
  /\ call.fn = "sort"
  /\ call.in.array = << <<"1", "1">>, <<"1", "0">>, <<"1">> >>
  /\ call.out = << <<"1", "0">>, <<"1">>, <<"1", "1">> >>

\* C6: padPossibleSolution(w, "0")(s) is s behind w - length(s) '0's when s is
\* shorter than w and s itself otherwise: as long as the longer of w and s,
\* and ending with s.
C6_PadsLeftNeverTruncates ==
  call.fn = "padPossibleSolution" =>
    LET w == call.in.requiredLength
        s == call.in.possibleSolution
        longer == IF w > Len(s) THEN w ELSE Len(s)
    IN  /\ Len(s) < w => call.out = [i \in 1..w |-> IF i <= w - Len(s) THEN "0" ELSE s[i - (w - Len(s))]]
        /\ Len(s) >= w => call.out = s
        /\ Len(call.out) = longer
        /\ SubSeq(call.out, Len(call.out) - Len(s) + 1, Len(call.out)) = s

\* C6's case: "10" padded to width 3.
C6_Witness ==
  /\ call.fn = "padPossibleSolution"
  /\ call.in.requiredLength = 3
  /\ call.in.possibleSolution = <<"1", "0">>
  /\ call.out = <<"0", "1", "0">>

\* C7: for n >= 0 createPossibleSolutions(n) has exactly 2^n elements, the one
\* at index i being i; for n = 0 it is [0].
C7_EnumeratesAll ==
  call.fn = "createPossibleSolutions" =>
    /\ Len(call.out) = 2 ^ call.in.colors
    /\ \A i \in 0..(Len(call.out) - 1) : call.out[i + 1] = i
    /\ call.in.colors = 0 => call.out = <<0>>

\* C7's case: two colors, four possible solutions.
C7_Witness ==
  /\ call.fn = "createPossibleSolutions"
  /\ call.in.colors = 2
  /\ call.out = <<0, 1, 2, 3>>

\* The listed pair <<position, letter>> as the claim maps it.
MappedPair(pair) == <<pair[1] - 1, IF pair[2] = "G" THEN "0" ELSE "1">>

\* C8: a line listing k >= 0 pairs <position> <letter> parses to the
\* ClientRequirement of exactly those pairs, each as (position - 1, digit), G as
\* '0' and M as '1'; so the parsed client is satisfied by an Assignment exactly
\* when some listed pair matches it, and a line of no pair gives an empty one.
C8_ParsedLineHoldsListedPairs ==
  call.fn = "parseFileInputLine" =>
    /\ {call.out[i] : i \in 1..Len(call.out)} = {MappedPair(call.in.listed[i]) : i \in 1..Len(call.in.listed)}
    /\ \A a \in DigitStrings(MaxColors) :
         areRequirementsSatisfied(a, call.out)
           <=> \E i \in 1..Len(call.in.listed) : Matches(a, MappedPair(call.in.listed[i]))
    /\ call.in.listed = <<>> => call.out = <<>>

====
